---- MODULE Spec2Model ----
(***************************************************************************)
(* Flood storm dashboard: the four Streamlit scripts app.py, app_debug.py, *)
(* app_enhanced.py and app_final.py, as a state machine of script runs     *)
(* over one browser session, together with the array operations the        *)
(* scripts call (nearest-point selection, yearly grouping, statistics and  *)
(* the first-degree polynomial fit).                                       *)
(*                                                                         *)
(* Coordinates, years and precipitation values are integers.  A missing    *)
(* value is NaN.  A rational result (a mean, a variance, a slope) is a     *)
(* record [num, den] that is not reduced.                                  *)
(***************************************************************************)
EXTENDS Integers, Sequences, FiniteSets, TLC

\* ------------------------------------------------------------------ bounds
\* Longest grid axis drawn for the nearest-point lookup.
MaxAxis == 3
\* Largest query coordinate drawn, in grid units of 5 (queries reach past the axis).
MaxQuery == 8
\* Longest time coordinate drawn for the yearly grouping.
MaxSteps == 3
\* Largest precipitation value drawn.
MaxValue == 2
\* Longest value series drawn for the statistics.
MaxSeries == 4
\* Largest value drawn in such a series.
MaxStat == 4
\* Number of calendar years a yearly series is drawn from for the period comparison.
MaxYears == 7

\* ------------------------------------------------------------- basic values
\* The missing-value marker of the array library.
NaN == -1

\* Python's None; a coordinate pair is <<lat, lon>>, so None is the only falsy one.
None == << >>

Range(s) == {s[i] : i \in DOMAIN s}

Abs(x) == IF x < 0 THEN -x ELSE x

SetMax(S) == CHOOSE x \in S : \A y \in S : y <= x

SetMin(S) == CHOOSE x \in S : \A y \in S : x <= y

RECURSIVE SetSum(_)
SetSum(S) == IF S = {} THEN 0 ELSE LET x == CHOOSE y \in S : TRUE IN x + SetSum(S \ {x})

RECURSIVE SeqSum(_)
SeqSum(s) == IF s = << >> THEN 0 ELSE Head(s) + SeqSum(Tail(s))

\* The ascending sequence of the members of a set of integers.
RECURSIVE SortedSeq(_)
SortedSeq(S) == IF S = {} THEN << >> ELSE <<SetMin(S)>> \o SortedSeq(S \ {SetMin(S)})

\* An exception raised by a library call or a successful result.
Raise(exc) == [kind |-> "error", exc |-> exc]

IsError(r) == r.kind = "error"

\* ------------------------------------------------- nearest-point selection
\* pandas Index.is_monotonic_increasing (true of an empty or one-element index).
is_monotonic_increasing(axis) == \A i \in 1 .. Len(axis) - 1 : axis[i] <= axis[i + 1]

is_monotonic_decreasing(axis) == \A i \in 1 .. Len(axis) - 1 : axis[i] >= axis[i + 1]

\* get_indexer(target, "pad"): the last position, in index order, whose label does not
\* come after the target; 0 stands for pandas' -1 (not found).
pad_indexer(axis, q) ==
    LET inc == is_monotonic_increasing(axis)
        ok == {i \in DOMAIN axis : IF inc THEN axis[i] <= q ELSE axis[i] >= q}
    IN IF ok = {} THEN 0 ELSE SetMax(ok)

\* get_indexer(target, "backfill"): the first position whose label does not come
\* before the target; 0 stands for -1.
backfill_indexer(axis, q) ==
    LET inc == is_monotonic_increasing(axis)
        ok == {i \in DOMAIN axis : IF inc THEN axis[i] >= q ELSE axis[i] <= q}
    IN IF ok = {} THEN 0 ELSE SetMin(ok)

\* _difference_compat: the distance to the label at the indexer; numpy reads
\* position -1 as the last element.
difference_compat(axis, q, indexer) ==
    Abs(q - axis[IF indexer = 0 THEN Len(axis) ELSE indexer])

\* The comparison _get_nearest_indexer picks: operator.lt on an increasing index,
\* operator.le otherwise.
BadNearestOp(inc, l, r) == l <= r

nearest_op(inc, l, r) == IF inc THEN l < r ELSE l <= r

\* pandas Index._get_nearest_indexer for one target on a monotonic index; 0 is -1.
get_nearest_indexer(axis, q) ==
    IF Len(axis) = 0 THEN 0
    ELSE LET left == pad_indexer(axis, q)
             right == backfill_indexer(axis, q)
             ld == difference_compat(axis, q, left)
             rd == difference_compat(axis, q, right)
         IN IF nearest_op(is_monotonic_increasing(axis), ld, rd) \/ right = 0
            THEN left ELSE right

\* A field is [coord, lat, lon, pr]: coord the time or year coordinate, pr[k][i][j] the
\* value at step k, latitude i, longitude j.
\* field['pr'].sel(lat=.., lon=.., method='nearest'): KeyError when an indexer is -1,
\* otherwise the whole series of the cell, one row per step of coord.
sel_nearest(F, qlat, qlon) ==
    LET i == get_nearest_indexer(F.lat, qlat)
        j == get_nearest_indexer(F.lon, qlon)
    IN IF i = 0 \/ j = 0 THEN Raise("KeyError")
       ELSE [kind |-> "ok", lat |-> F.lat[i], lon |-> F.lon[j],
             rows |-> [k \in DOMAIN F.coord |-> [t |-> F.coord[k], v |-> F.pr[k][i][j]]]]

\* ------------------------------------------------------- yearly aggregation
\* A time stamp is [year, ord]: its calendar year and its place within the year.
\* The year pd.to_datetime gives a small undecoded integer (nanoseconds since the epoch).
EpochYear == 1970

\* An undecoded integer time value n carries no calendar year: [year |-> 0, ord |-> n].
\* pd.to_datetime on it counts n nanoseconds from the epoch.
to_datetime(t) == [year |-> EpochYear, ord |-> t.ord]

\* The .dt.year accessor.
dt_year(t) == t.year

\* max with skipna over the samples of one group: NaN only when every sample is missing.
BadNanMax(S) == IF S \ {NaN} = {} THEN 0 ELSE SetMax(S \ {NaN})

nanmax(S) == IF S \ {NaN} = {} THEN NaN ELSE SetMax(S \ {NaN})

\* The order in which groupby lays out its group labels: sorted unique.
BadGroupLabels(time) == [k \in DOMAIN time |-> dt_year(time[k])]

group_labels(time) == SortedSeq({dt_year(time[k]) : k \in DOMAIN time})

\* ds.groupby('time.year').max('time') on a dataset whose time coordinate holds time
\* stamps: ValueError when there is nothing to group, otherwise one step per label.
groupby_year_max(ds) ==
    IF Len(ds.time) = 0 THEN Raise("ValueError")
    ELSE LET years == group_labels(ds.time)
         IN [kind |-> "ok",
             value |-> [coord |-> years, lat |-> ds.lat, lon |-> ds.lon,
                        pr |-> [y \in DOMAIN years |->
                                 [i \in DOMAIN ds.lat |->
                                   [j \in DOMAIN ds.lon |->
                                     nanmax({ds.pr[k][i][j] :
                                             k \in {k \in DOMAIN ds.time :
                                                    dt_year(ds.time[k]) = years[y]}})]]]]]

\* A rational number, or NaN.
Num(n, d) == [kind |-> "num", num |-> n, den |-> d]

NotANumber == [kind |-> "nan", num |-> 0, den |-> 1]

\* field['pr'].mean(dim=..) for one cell: the mean of the non-missing samples.
BadNanMean(s) ==
    IF Len(s) = 0 THEN NotANumber
    ELSE Num(SeqSum(SelectSeq(s, LAMBDA v : v # NaN)), Len(s))

nanmean(s) ==
    LET valid == SelectSeq(s, LAMBDA v : v # NaN)
    IN IF Len(valid) = 0 THEN NotANumber ELSE Num(SeqSum(valid), Len(valid))

\* The spatial summary: the mean over the time or year dimension, cell by cell.
mean_over_steps(F) ==
    [i \in DOMAIN F.lat |-> [j \in DOMAIN F.lon |->
        nanmean([k \in DOMAIN F.coord |-> F.pr[k][i][j]])]]

\* ---------------------------------------------------- statistics and trend
\* The values of a series, and the non-missing ones among them.
Values(rows) == [k \in DOMAIN rows |-> rows[k].v]

Valid(rows) == SelectSeq(Values(rows), LAMBDA v : v # NaN)

\* pandas Series.max / .min / .mean: skipna, NaN on no valid value.
series_max(rows) == IF Len(Valid(rows)) = 0 THEN NaN ELSE SetMax(Range(Valid(rows)))

series_min(rows) == IF Len(Valid(rows)) = 0 THEN NaN ELSE SetMin(Range(Valid(rows)))

series_mean(rows) == nanmean(Values(rows))

\* pandas Series.std (ddof=1), kept as the variance it is the root of:
\* (n*sum(v^2) - sum(v)^2) / (n*(n-1)); NaN below two valid values, never an error.
series_std(rows) ==
    LET v == Valid(rows)
        n == Len(v)
    IN IF n < 2 THEN NotANumber
       ELSE Num(n * SeqSum([k \in DOMAIN v |-> v[k] * v[k]]) - SeqSum(v) * SeqSum(v),
                n * (n - 1))

\* np.polyfit(x, y, 1)[0] for x the (distinct, positive) years of a series:
\*   no point: TypeError (expected non-empty vector);
\*   a missing y: the least-squares driver either fails to converge (LinAlgError) or
\*     hands back NaN coefficients, depending on the LAPACK build: svd_raises says which;
\*   one point: the minimum-norm solution of the scaled system, slope y / (2x);
\*   otherwise the least-squares slope.
polyfit_slope(rows, svd_raises) ==
    LET n == Len(rows)
        x == [k \in DOMAIN rows |-> rows[k].t]
        y == Values(rows)
    IN IF n = 0 THEN Raise("TypeError")
       ELSE IF NaN \in Range(y)
            THEN (IF svd_raises THEN Raise("LinAlgError")
                  ELSE [kind |-> "ok", slope |-> NotANumber])
       ELSE IF n = 1 THEN [kind |-> "ok", slope |-> Num(y[1], 2 * x[1])]
       ELSE [kind |-> "ok",
             slope |-> Num(n * SeqSum([k \in DOMAIN rows |-> x[k] * y[k]])
                             - SeqSum(x) * SeqSum(y),
                           n * SeqSum([k \in DOMAIN rows |-> x[k] * x[k]])
                             - SeqSum(x) * SeqSum(x))]

\* int(x / 2) for an integer x: the quotient truncated towards zero.
int_half(x) == IF x >= 0 THEN x \div 2 ELSE -((-x) \div 2)

\* The period comparison of app_final.py (lines 306-322): the middle year, then the
\* rows up to it and the rows after it.
BadMidYear(rows) ==
    int_half(SetMin({rows[k].t : k \in DOMAIN rows})
             + SetMax({rows[k].t : k \in DOMAIN rows}) + 1)

mid_year(rows) ==
    int_half(SetMin({rows[k].t : k \in DOMAIN rows})
             + SetMax({rows[k].t : k \in DOMAIN rows}))

early_period(rows, mid) == SelectSeq(rows, LAMBDA r : r.t <= mid)

late_period(rows, mid) == SelectSeq(rows, LAMBDA r : r.t > mid)

period_comparison(rows) ==
    [mid_year |-> mid_year(rows), early_period |-> early_period(rows, mid_year(rows)),
     late_period |-> late_period(rows, mid_year(rows))]

\* ------------------------------------------------------------------ state
VARIABLES
    version,        \* which script the session runs
    disk,           \* the dataset stored in data/sample.nc
    file,           \* whether data/sample.nc can be opened: "ok" or "missing"
    env,            \* [raster_ok, svd_raises]: the raster/tile stack works; LAPACK raises on NaN
    cache,          \* the st.cache_resource store of the process
    session_state,  \* st.session_state: key -> coordinate pair or None
    last_clicked,   \* map_data['last_clicked'] as the st_folium component holds it
    inputs,         \* the values of the number_input widgets, None before first shown
    ui,             \* what the last run left on the page: [map, form, clear]
    out,            \* what the last script run did and showed
    done,           \* the derived results computed so far in the session
    rerun_pending,  \* st.rerun() was called and the next run has not started
    failed_before,  \* history: a query of an earlier run raised and was caught
    probe           \* the last direct call of an array operation and its result

vars == <<version, disk, file, env, cache, session_state, last_clicked, inputs, ui, out,
          done, rerun_pending, failed_before, probe>>

session_vars == <<version, disk, file, env, cache, session_state, last_clicked, inputs, ui,
                  out, done, rerun_pending, failed_before>>

Versions == {"app", "app_debug", "app_enhanced", "app_final"}

\* ------------------------------------------------------ the sample datasets
Stamp(y, o) == [year |-> y, ord |-> o]

Raw(n) == [year |-> 0, ord |-> n]

\* The time coordinates of the sample files: three years, one year only, no step at all,
\* undecoded integers, and a non-standard calendar (cftime objects).
TimeCoords ==
    { [tkind |-> "datetime64",
       time |-> <<Stamp(2000, 1), Stamp(2000, 2), Stamp(2001, 1), Stamp(2002, 1)>>],
      [tkind |-> "datetime64", time |-> <<Stamp(2000, 1), Stamp(2000, 2)>>],
      [tkind |-> "datetime64", time |-> << >>],
      [tkind |-> "int", time |-> <<Raw(0), Raw(1)>>],
      [tkind |-> "cftime", time |-> <<Stamp(2000, 1), Stamp(2001, 1)>>] }

\* Latitude runs south to north or north to south; the centre of each axis is a grid unit.
LatAxes == {<<10, 20, 30>>, <<30, 20, 10>>}

LonAxes == {<<0, 10>>}

\* The cell at the first latitude and longitude is masked at every step (a cell with no
\* data); one more sample is missing on its own.
SampleValue(k, i, j) ==
    IF i = 1 /\ j = 1 THEN NaN
    ELSE IF k = 1 /\ i = 2 /\ j = 1 THEN NaN
    ELSE k * i + j

Datasets ==
    { [tkind |-> tc.tkind, time |-> tc.time, lat |-> la, lon |-> lo,
       pr |-> [k \in DOMAIN tc.time |-> [i \in DOMAIN la |-> [j \in DOMAIN lo |->
                 SampleValue(k, i, j)]]]] :
      tc \in TimeCoords, la \in LatAxes, lo \in LonAxes }

\* Where the user clicks on the map (some clicks fall outside the grid) and what the user
\* types into the number inputs (the widgets keep typed values inside the grid).
ClickPoints == {<<5, 0>>, <<15, 0>>, <<30, 0>>, <<30, 15>>, <<10, 10>>}

InputLats == {15, 30}

InputLons == {0}

\* ------------------------------------------------------- script fragments
lat_min(ds) == SetMin(Range(ds.lat))

lat_max(ds) == SetMax(Range(ds.lat))

lon_min(ds) == SetMin(Range(ds.lon))

lon_max(ds) == SetMax(Range(ds.lon))

center_lat(ds) == (lat_min(ds) + lat_max(ds)) \div 2

center_lon(ds) == (lon_min(ds) + lon_max(ds)) \div 2

\* The bounds test a map click must pass.
in_bounds(ds, c) ==
    /\ lat_min(ds) <= c[1] /\ c[1] <= lat_max(ds)
    /\ lon_min(ds) <= c[2] /\ c[2] <= lon_max(ds)

\* ds['pr'] with its time coordinate, and a yearly dataset's 'pr', as fields.
pr_of(ds) ==
    [coord |-> IF "time" \in DOMAIN ds THEN ds.time ELSE ds.coord,
     lat |-> ds.lat, lon |-> ds.lon, pr |-> ds.pr]

\* The cache store: one slot for the loader, a set of [key, value] entries for the
\* function that takes the dataset as its argument.
NoEntry == [kind |-> "none"]

Entry(v) == [kind |-> "entry", value |-> v]

EmptyCache == [load |-> NoEntry, yearly |-> {}]

NoDataset == [tkind |-> "none", time |-> << >>, lat |-> << >>, lon |-> << >>, pr |-> << >>]

\* ds['time'] = pd.to_datetime(ds.time.values): TypeError on cftime objects.
with_datetime(ds) ==
    IF ds.tkind = "cftime" THEN Raise("TypeError")
    ELSE [kind |-> "ok",
          value |-> IF ds.tkind = "int"
                    THEN [ds EXCEPT !.tkind = "datetime64",
                                    !.time = [k \in DOMAIN ds.time |-> to_datetime(ds.time[k])]]
                    ELSE ds]

\* The outcome of one query's time-series block: what was asked (q), the exception the
\* block caught (exc, "" when none), the resolved cell and its rows, and which of the
\* plot, the statistics, the standard deviation and the trend were shown before the
\* block ended.
NoStats == [max |-> NaN, min |-> NaN, mean |-> NotANumber, std |-> NotANumber]

stats_of(rows) ==
    [max |-> series_max(rows), min |-> series_min(rows), mean |-> series_mean(rows),
     std |-> series_std(rows)]

Query(src, q, sel, exc, shown, has_stats, has_std, has_trend, slope) ==
    [src |-> src, q |-> q, exc |-> exc, shown |-> shown,
     resolved |-> ~IsError(sel),
     lat |-> IF IsError(sel) THEN 0 ELSE sel.lat,
     lon |-> IF IsError(sel) THEN 0 ELSE sel.lon,
     rows |-> IF IsError(sel) THEN << >> ELSE sel.rows,
     has_stats |-> has_stats, has_std |-> has_std,
     stats |-> IF has_stats THEN stats_of(sel.rows) ELSE NoStats,
     has_trend |-> has_trend, slope |-> slope, csv |-> << >>]

\* The columns of ts.to_dataframe().reset_index(): the dimension, the scalar
\* coordinates the selection left on the array, and the variable.
df_columns == <<"year", "lat", "lon", "pr">>

\* A value as df.to_csv writes it: a missing value is an empty field.
float_text(v) == IF v = NaN THEN "" ELSE ToString(v)

\* df.to_csv(index=False): the header line, then one line per row of the frame.
BadToCsv(sel) ==
    <<df_columns>> \o
    [k \in DOMAIN sel.rows |->
       <<ToString(sel.rows[Len(sel.rows) + 1 - k].t), ToString(sel.lat), ToString(sel.lon),
         float_text(sel.rows[Len(sel.rows) + 1 - k].v)>>]

to_csv(sel) ==
    <<df_columns>> \o
    [k \in DOMAIN sel.rows |->
       <<ToString(sel.rows[k].t), ToString(sel.lat), ToString(sel.lon),
         float_text(sel.rows[k].v)>>]

\* The try block once the selection is made, for the scripts that fit no trend:
\* app.py lines 93-124 (four statistics), app_debug.py lines 154-173 (src = "click":
\* plot and table only) and lines 202-229 (src = "manual": four statistics).
plain_block(src, q, sel, with_stats) ==
    Query(src, q, sel, IF IsError(sel) THEN sel.exc ELSE "", ~IsError(sel),
          ~IsError(sel) /\ with_stats, ~IsError(sel) /\ with_stats, FALSE, NotANumber)

\* The try block of app_final.py (lines 239-326) once the selection and the fit are
\* made: polyfit runs before the plot is shown; the histogram that follows the
\* statistics raises ValueError on a series holding a missing value (its range is not
\* finite).  rename_fails says that the block assigned two column names to a frame of
\* another width first (app_enhanced.py line 113), which raises ValueError.
trend_page(q, sel, fit, rename_fails) ==
    Query("session", q, sel,
          IF IsError(sel) THEN sel.exc
          ELSE IF rename_fails THEN "ValueError"
          ELSE IF IsError(fit) THEN fit.exc
          ELSE IF NaN \in Range(Values(sel.rows)) THEN "ValueError" ELSE "",
          ~IsError(sel) /\ ~rename_fails /\ ~IsError(fit),
          ~IsError(sel) /\ ~rename_fails /\ ~IsError(fit),
          FALSE,
          ~IsError(sel) /\ ~rename_fails /\ ~IsError(fit),
          IF ~IsError(sel) /\ ~rename_fails /\ ~IsError(fit) THEN fit.slope ELSE NotANumber)

\* The download button (app_final.py lines 328-335) is the last statement of the try
\* block: the frame is written out only when nothing before it raised.
trend_block(q, sel, fit, rename_fails) ==
    \* the block up to the data table, then the export
    IF trend_page(q, sel, fit, rename_fails).exc = ""
    THEN [trend_page(q, sel, fit, rename_fails) EXCEPT !.csv = to_csv(sel)]
    ELSE trend_page(q, sel, fit, rename_fails)

\* app.py lines 90-127.
time_series_app(ds, q) == plain_block("session", q, sel_nearest(pr_of(ds), q[1], q[2]), TRUE)

\* app_debug.py lines 151-178 and 199-234.
time_series_debug(yearly_ds, src, q) ==
    plain_block(src, q, sel_nearest(pr_of(yearly_ds), q[1], q[2]), src = "manual")

with_fit(q, sel, svd_raises, rename_fails) ==
    trend_block(q, sel,
                IF IsError(sel) THEN sel ELSE polyfit_slope(sel.rows, svd_raises),
                rename_fails)

\* app_enhanced.py lines 105-202.
time_series_enhanced(yearly_ds, q, svd_raises) ==
    with_fit(q, sel_nearest(pr_of(yearly_ds), q[1], q[2]), svd_raises, Len(df_columns) # 2)

\* app_final.py lines 237-340: the frame's columns are read by name, never renamed.
BadTimeSeriesFinal(yearly_ds, q, svd_raises) ==
    with_fit(q, sel_nearest(pr_of(yearly_ds),
                            IF out.queries # << >> THEN out.queries[1].q[1] ELSE q[1], q[2]),
             svd_raises, FALSE)

time_series_final(yearly_ds, q, svd_raises) ==
    with_fit(q, sel_nearest(pr_of(yearly_ds), q[1], q[2]), svd_raises, FALSE)

\* What one script run leaves behind.
RunResult(c, ss, inp, page, status, exc, messages, map_built, handled, computed, queries) ==
    [cache |-> c, session_state |-> ss, inputs |-> inp, ui |-> page,
     out |-> [status |-> status, exc |-> exc, messages |-> messages,
              map_built |-> map_built, handled |-> handled, computed |-> computed,
              queries |-> queries]]

NoPage == [map |-> FALSE, form |-> FALSE, clear |-> FALSE]

NoInputs == [manual |-> None, selected |-> None]

\* The run ends before any widget is drawn: st.stop() after a reported failure
\* (status "stopped") or an exception nothing catches (status "exception").
BadHalted(c, status, exc, message, computed) ==
    RunResult(c, session_state, inputs, NoPage, status, exc, {}, FALSE, FALSE, computed,
              << >>)

Halted(c, status, exc, message, computed) ==
    RunResult(c, session_state, inputs, NoPage, status, exc, {message}, FALSE, FALSE,
              computed, << >>)

\* A number_input keeps the value typed into it and starts at its value= argument.
shown_input(v, ds) == IF v = None THEN <<center_lat(ds), center_lon(ds)>> ELSE v

\* if key not in st.session_state: st.session_state[key] = None
init_state(ss, key) == IF key \in DOMAIN ss THEN ss ELSE [k \in {key} |-> None]

\* The map-click block of app_enhanced.py (lines 73-81) and app_final.py (lines 194-204).
BadHandleClick(ss, key, ds, click) ==
    IF click # None THEN [ss EXCEPT ![key] = click] ELSE ss

handle_click(ss, key, ds, click) ==
    IF click # None /\ in_bounds(ds, click) THEN [ss EXCEPT ![key] = click] ELSE ss

click_messages(ds, click) ==
    IF click # None /\ ~in_bounds(ds, click) THEN {"outside"} ELSE {}

\* A button that stores the number inputs beside it as the coordinate.
BadPress(ss, key, pressed, value) ==
    IF pressed /\ (last_clicked = None \/ ~in_bounds(disk, last_clicked))
    THEN [ss EXCEPT ![key] = value] ELSE ss

press(ss, key, pressed, value) == IF pressed THEN [ss EXCEPT ![key] = value] ELSE ss

series_messages(queries) ==
    IF \E n \in DOMAIN queries : queries[n].exc # "" THEN {"ts_error"} ELSE {}

\* A lookup in the entries of a function cached on its dataset argument.
cached_for(ds) == {e \in cache.yearly : e.key = ds}

\* ---------------------------------------------------------------- app.py
\* load_data of app.py (lines 6-9) and app_enhanced.py (lines 11-16): the exception of
\* a failed open leaves the function, so nothing is cached.
load_data_plain ==
    IF file = "missing" THEN Raise("FileNotFoundError")
    ELSE IF version = "app_enhanced" THEN with_datetime(disk)
    ELSE [kind |-> "ok", value |-> disk]

cached_load_plain ==
    IF cache.load.kind = "entry" THEN [kind |-> "ok", value |-> cache.load.value]
    ELSE load_data_plain

\* app.py lines 47-129, with the coordinate the buttons left in the session state.
app_page(ds, c, computed, ss, inp) ==
    RunResult(c, ss, inp, [map |-> FALSE, form |-> TRUE, clear |-> FALSE], "done", "",
              IF ss["clicked_coords"] # None
              THEN series_messages(<<time_series_app(ds, ss["clicked_coords"])>>) ELSE {},
              TRUE, TRUE, computed,
              IF ss["clicked_coords"] # None
              THEN <<time_series_app(ds, ss["clicked_coords"])>> ELSE << >>)

\* app.py lines 20-45: the spatial mean is taken and written as a raster in every run.
app_loaded(ds, computed, button, typed) ==
    IF ~env.raster_ok
    THEN Halted([cache EXCEPT !.load = Entry(ds)], "exception", "RasterError", "exception",
                computed)
    ELSE app_page(ds, [cache EXCEPT !.load = Entry(ds)], computed,
                  press(press(init_state(session_state, "clicked_coords"), "clicked_coords",
                              button = "manual_button", shown_input(typed.manual, ds)),
                        "clicked_coords", button = "generate_ts",
                        shown_input(typed.selected, ds)),
                  [manual |-> shown_input(typed.manual, ds),
                   selected |-> shown_input(typed.selected, ds)])

app_load(loaded, hit, button, typed) ==
    IF IsError(loaded) THEN Halted(cache, "exception", loaded.exc, "load_error", {})
    ELSE app_loaded(loaded.value, (IF hit THEN {} ELSE {"load"}) \cup {"summary"}, button,
                    typed)

\* One run of app.py; button is "none", "manual_button" or "generate_ts".
run_app(button, click, typed) ==
    app_load(cached_load_plain, cache.load.kind = "entry", button, typed)

\* ---------------------------------------------------------- app_debug.py
\* load_data of app_debug.py (lines 12-18): the failure is returned, hence cached.
load_data_debug ==
    IF file = "missing" THEN [ds |-> NoDataset, error |-> "FileNotFoundError"]
    ELSE [ds |-> disk, error |-> ""]

\* The yearly result for a converted dataset (lines 60-68).
yearly_result(ds, g) ==
    IF IsError(g)
    THEN [ds_after |-> ds, yearly_ds |-> NoDataset, yearly_mean |-> << >>,
          error |-> g.exc, steps |-> {}]
    ELSE [ds_after |-> ds, yearly_ds |-> g.value,
          yearly_mean |-> mean_over_steps(pr_of(g.value)), error |-> "",
          steps |-> {"yearly", "summary"}]

converted(ds, conv) ==
    IF IsError(conv)
    THEN [ds_after |-> ds, yearly_ds |-> NoDataset, yearly_mean |-> << >>,
          error |-> conv.exc, steps |-> {}]
    ELSE yearly_result(conv.value, groupby_year_max(conv.value))

\* process_yearly_data (lines 53-68): assigns the converted time coordinate to the
\* dataset it was handed (the cached object) when the coordinate is not datetime64,
\* then groups; any exception is returned.  ds_after is the dataset as the call leaves it.
process_yearly_data(ds) ==
    converted(ds, IF ds.tkind = "datetime64" THEN [kind |-> "ok", value |-> ds]
                  ELSE with_datetime(ds))

\* app_debug.py lines 138-234: the click block and the manual block each extract.
debug_page(ds, yearly_ds, c, computed, button, click, inp) ==
    RunResult(c, session_state, inp, [map |-> TRUE, form |-> TRUE, clear |-> FALSE],
              "done", "", click_messages(ds, click), TRUE, TRUE, computed,
              (IF click # None /\ in_bounds(ds, click)
               THEN <<time_series_debug(yearly_ds, "click", click)>> ELSE << >>)
              \o (IF button = "generate_ts"
                  THEN <<time_series_debug(yearly_ds, "manual", inp.manual)>> ELSE << >>))

debug_yearly(ds0, y, yhit, k1, button, click, typed) ==
    IF y.error # ""
    THEN Halted([load |-> Entry([ds |-> y.ds_after, error |-> ""]),
                 yearly |-> cache.yearly \cup {[key |-> ds0, value |-> y]}],
                "stopped", "", "yearly_error", k1 \cup (IF yhit THEN {} ELSE y.steps))
    ELSE debug_page(y.ds_after, y.yearly_ds,
                    [load |-> Entry([ds |-> y.ds_after, error |-> ""]),
                     yearly |-> cache.yearly \cup {[key |-> ds0, value |-> y]}],
                    k1 \cup (IF yhit THEN {} ELSE y.steps), button, click,
                    [typed EXCEPT !.manual = shown_input(typed.manual, y.ds_after)])

debug_load(loaded, hit, button, click, typed) ==
    IF loaded.error # ""
    THEN Halted([cache EXCEPT !.load = Entry(loaded)], "stopped", "", "load_error", {})
    ELSE debug_yearly(loaded.ds,
                      IF cached_for(loaded.ds) # {}
                      THEN (CHOOSE e \in cached_for(loaded.ds) : TRUE).value
                      ELSE process_yearly_data(loaded.ds),
                      cached_for(loaded.ds) # {},
                      IF hit THEN {} ELSE {"load"}, button, click, typed)

\* One run of app_debug.py; button is "none" or "generate_ts".
run_debug(button, click, typed) ==
    debug_load(IF cache.load.kind = "entry" THEN cache.load.value ELSE load_data_debug,
               cache.load.kind = "entry", button, click, typed)

\* ------------------------------------------------------- app_enhanced.py
\* prepare_yearly_data (lines 18-22): the exception of a failed grouping leaves it.
prepare_yearly_data(ds) == groupby_year_max(ds)

\* app_enhanced.py lines 100-209 with the coordinate the click and the button left:
\* the series, then the Clear Selection button, which is always drawn.
enhanced_series(ds, c, computed, button, click, ss, inp, queries) ==
    RunResult(c,
              IF button = "clear" THEN [ss EXCEPT !["clicked_coords"] = None] ELSE ss,
              inp, [map |-> TRUE, form |-> TRUE, clear |-> TRUE],
              IF button = "clear" THEN "rerun" ELSE "done", "",
              click_messages(ds, click) \cup series_messages(queries),
              TRUE, TRUE, computed, queries)

enhanced_page(ds, yearly_ds, c, computed, button, click, ss, inp) ==
    enhanced_series(ds, c, computed, button, click, ss, inp,
                    IF ss["clicked_coords"] # None
                    THEN <<time_series_enhanced(yearly_ds, ss["clicked_coords"],
                                                env.svd_raises)>>
                    ELSE << >>)

\* app_enhanced.py lines 36-98.
enhanced_yearly(ds, y, yhit, k1, button, click, typed) ==
    IF IsError(y)
    THEN Halted([cache EXCEPT !.load = Entry(ds)], "exception", y.exc, "exception", k1)
    ELSE IF ~env.raster_ok
    THEN Halted([load |-> Entry(ds),
                 yearly |-> cache.yearly \cup {[key |-> ds, value |-> y.value]}],
                "exception", "RasterError", "exception",
                k1 \cup (IF yhit THEN {} ELSE {"yearly"}) \cup {"summary"})
    ELSE enhanced_page(ds, y.value,
                       [load |-> Entry(ds),
                        yearly |-> cache.yearly \cup {[key |-> ds, value |-> y.value]}],
                       k1 \cup (IF yhit THEN {} ELSE {"yearly"}) \cup {"summary"},
                       button, click,
                       press(handle_click(init_state(session_state, "clicked_coords"),
                                          "clicked_coords", ds, click),
                             "clicked_coords", button = "generate_ts",
                             shown_input(typed.selected, ds)),
                       [typed EXCEPT !.selected = shown_input(typed.selected, ds)])

enhanced_load(loaded, hit, button, click, typed) ==
    IF IsError(loaded) THEN Halted(cache, "exception", loaded.exc, "load_error", {})
    ELSE enhanced_yearly(loaded.value,
                         IF cached_for(loaded.value) # {}
                         THEN [kind |-> "ok",
                               value |-> (CHOOSE e \in cached_for(loaded.value) : TRUE).value]
                         ELSE prepare_yearly_data(loaded.value),
                         cached_for(loaded.value) # {},
                         IF hit THEN {} ELSE {"load"}, button, click, typed)

\* One run of app_enhanced.py; button is "none", "generate_ts" or "clear".
run_enhanced(button, click, typed) ==
    enhanced_load(cached_load_plain, cache.load.kind = "entry", button, click, typed)

\* ---------------------------------------------------------- app_final.py
load_failed(e) ==
    [ds |-> NoDataset, yearly_ds |-> NoDataset, yearly_mean |-> << >>, error |-> e]

processed(ds, g) ==
    IF IsError(g) THEN load_failed(g.exc)
    ELSE [ds |-> ds, yearly_ds |-> g.value,
          yearly_mean |-> mean_over_steps(pr_of(g.value)), error |-> ""]

\* load_and_process_data (lines 16-32): open, group by ds['time'].dt.year (the .dt
\* accessor refuses a coordinate that holds no dates), average over the years; any
\* exception is returned as the fourth element, hence cached.
load_and_process_data ==
    IF file = "missing" THEN load_failed("FileNotFoundError")
    ELSE IF disk.tkind = "int" THEN load_failed("AttributeError")
    ELSE processed(disk, groupby_year_max(disk))

\* app_final.py lines 233-346 with the coordinate the click and the button left: the
\* series, then the Clear Selection button, drawn only while a coordinate is held.
BadFinalSeries(ds, c, computed, button, click, ss, inp, queries) ==
    RunResult(c, ss, inp,
              IF series_messages(queries) # {} THEN NoPage
              ELSE [map |-> TRUE, form |-> TRUE, clear |-> ss["selected_coords"] # None],
              IF series_messages(queries) # {} THEN "exception" ELSE "done",
              IF series_messages(queries) # {} THEN queries[1].exc ELSE "",
              click_messages(ds, click), TRUE, TRUE, computed, queries)

final_series(ds, c, computed, button, click, ss, inp, queries) ==
    RunResult(c,
              IF ss["selected_coords"] # None /\ button = "clear"
              THEN [ss EXCEPT !["selected_coords"] = None] ELSE ss,
              inp, [map |-> TRUE, form |-> TRUE, clear |-> ss["selected_coords"] # None],
              IF ss["selected_coords"] # None /\ button = "clear" THEN "rerun" ELSE "done",
              "",
              (IF env.raster_ok THEN {} ELSE {"raster_warning"})
                \cup click_messages(ds, click) \cup series_messages(queries),
              TRUE, TRUE, computed, queries)

final_page(ds, yearly_ds, c, computed, button, click, ss, inp) ==
    final_series(ds, c, computed, button, click, ss, inp,
                 IF ss["selected_coords"] # None
                 THEN <<time_series_final(yearly_ds, ss["selected_coords"], env.svd_raises)>>
                 ELSE << >>)

\* app_final.py lines 35-231.
final_load(loaded, hit, button, click, typed) ==
    IF loaded.error # ""
    THEN Halted([cache EXCEPT !.load = Entry(loaded)], "stopped", "", "load_error", {})
    ELSE final_page(loaded.ds, loaded.yearly_ds, [cache EXCEPT !.load = Entry(loaded)],
                    IF hit THEN {} ELSE {"load", "yearly", "summary"}, button, click,
                    press(handle_click(init_state(session_state, "selected_coords"),
                                       "selected_coords", loaded.ds, click),
                          "selected_coords", button = "select",
                          shown_input(typed.manual, loaded.ds)),
                    [typed EXCEPT !.manual = shown_input(typed.manual, loaded.ds)])

\* One run of app_final.py; button is "none", "select" or "clear".
run_final(button, click, typed) ==
    final_load(IF cache.load.kind = "entry" THEN cache.load.value
               ELSE load_and_process_data,
               cache.load.kind = "entry", button, click, typed)

\* ------------------------------------------------------------- the session
run(button, click, typed) ==
    CASE version = "app" -> run_app(button, click, typed)
      [] version = "app_debug" -> run_debug(button, click, typed)
      [] version = "app_enhanced" -> run_enhanced(button, click, typed)
      [] version = "app_final" -> run_final(button, click, typed)

\* The script runs once from top to bottom (or to where it stops) and the page, the
\* cache and the session state are what it leaves.
ScriptRun(button, click, typed) ==
    \E r \in {run(button, click, typed)} :
       /\ cache' = r.cache
       /\ session_state' = r.session_state
       /\ inputs' = r.inputs
       /\ ui' = r.ui
       /\ out' = [status |-> r.out.status, exc |-> r.out.exc, messages |-> r.out.messages,
                  map_built |-> r.out.map_built, handled |-> r.out.handled,
                  computed |-> r.out.computed, queries |-> r.out.queries,
                  recomputed |-> r.out.computed \cap done,
                  button |-> button, click |-> click]
       /\ done' = done \cup r.out.computed
       /\ rerun_pending' = (r.out.status = "rerun")
       /\ failed_before' = (failed_before \/ "ts_error" \in out.messages)

NoOut ==
    [status |-> "none", exc |-> "", messages |-> {}, map_built |-> FALSE,
     handled |-> FALSE, computed |-> {}, queries |-> << >>, recomputed |-> {},
     button |-> "none", click |-> None]

NoProbe == [op |-> "none"]

Init ==
    /\ version \in Versions
    /\ disk \in Datasets
    /\ file \in {"ok", "missing"}
    /\ env \in [raster_ok : BOOLEAN, svd_raises : BOOLEAN]
    /\ cache = EmptyCache
    /\ session_state = [k \in {} |-> None]
    /\ last_clicked = None
    /\ inputs = NoInputs
    /\ ui = NoPage
    /\ out = NoOut
    /\ done = {}
    /\ rerun_pending = FALSE
    /\ failed_before = FALSE
    /\ probe = NoProbe

\* The browser opens the page: the first script run.
OpenPage ==
    /\ out.status = "none"
    /\ ScriptRun("none", last_clicked, inputs)
    /\ UNCHANGED <<version, disk, file, env, last_clicked, probe>>

\* The user clicks on the map: the component's value changes and the script reruns.
MapClick ==
    /\ ~rerun_pending /\ ui.map
    /\ \E c \in ClickPoints \ {last_clicked} :
         /\ last_clicked' = c
         /\ ScriptRun("none", c, inputs)
    /\ UNCHANGED <<version, disk, file, env, probe>>

\* The number inputs each script shows, and the buttons beside them.
Forms ==
    CASE version = "app" -> {"manual", "selected"}
      [] version = "app_enhanced" -> {"selected"}
      [] OTHER -> {"manual"}

Buttons ==
    CASE version = "app" -> {"manual_button", "generate_ts"}
      [] version = "app_final" -> {"select"}
      [] OTHER -> {"generate_ts"}

\* The user types into a pair of number inputs: the script reruns with no button
\* pressed.  Every sample grid spans the typed values, as min_value/max_value demand.
ChangeInput ==
    /\ ~rerun_pending /\ ui.form
    /\ \E w \in Forms, la \in InputLats, lo \in InputLons :
         ScriptRun("none", last_clicked, [inputs EXCEPT ![w] = <<la, lo>>])
    /\ UNCHANGED <<version, disk, file, env, last_clicked, probe>>

\* The user presses a button that sets the coordinate from the number inputs.
PressSelect ==
    /\ ~rerun_pending /\ ui.form
    /\ \E b \in Buttons : ScriptRun(b, last_clicked, inputs)
    /\ UNCHANGED <<version, disk, file, env, last_clicked, probe>>

\* The user presses Clear Selection.
PressClear ==
    /\ ~rerun_pending /\ ui.clear
    /\ ScriptRun("clear", last_clicked, inputs)
    /\ UNCHANGED <<version, disk, file, env, last_clicked, probe>>

\* The run st.rerun() asked for: the script starts over with no button pressed.
Rerun ==
    /\ rerun_pending
    /\ ScriptRun("none", last_clicked, inputs)
    /\ UNCHANGED <<version, disk, file, env, last_clicked, probe>>

\* The page is reloaded by the browser's rerun control: a run with nothing pressed.
Refresh ==
    /\ out.status # "none" /\ ~rerun_pending
    /\ ScriptRun("none", last_clicked, inputs)
    /\ UNCHANGED <<version, disk, file, env, last_clicked, probe>>

\* data/sample.nc is put in place or taken away between two runs.
ReplaceFile ==
    /\ ~rerun_pending
    /\ file' = IF file = "ok" THEN "missing" ELSE "ok"
    /\ UNCHANGED <<version, disk, env, cache, session_state, last_clicked, inputs, ui, out,
                   done, rerun_pending, failed_before, probe>>

Next ==
    \/ OpenPage
    \/ MapClick
    \/ ChangeInput
    \/ PressSelect
    \/ PressClear
    \/ Rerun
    \/ Refresh
    \/ ReplaceFile

Spec == Init /\ [][Next]_vars

\* ------------------------------------------- the array operations on their own
\* The session is not started: only the operation under study is applied.
IdleSession ==
    /\ version = "app_final"
    /\ disk = NoDataset
    /\ file = "ok"
    /\ env = [raster_ok |-> TRUE, svd_raises |-> TRUE]
    /\ cache = EmptyCache
    /\ session_state = [k \in {} |-> None]
    /\ last_clicked = None
    /\ inputs = NoInputs
    /\ ui = NoPage
    /\ out = NoOut
    /\ done = {}
    /\ rerun_pending = FALSE
    /\ failed_before = FALSE

\* A call not yet made.
Pending == [kind |-> "pending"]

\* The strictly monotonic axes (ascending or descending) over the grid values
\* 10, 20, .. of at most MaxAxis points, the empty axis included.
GridValues == {10 * n : n \in 1 .. MaxAxis}

ProbeAxes ==
    {SortedSeq(S) : S \in SUBSET GridValues}
    \cup {[i \in 1 .. Cardinality(S) |-> SortedSeq(S)[Cardinality(S) + 1 - i]] :
          S \in SUBSET GridValues}

ProbeQueries == {5 * n : n \in 0 .. MaxQuery}

ProbeLonAxes == {<< >>, <<0, 10>>, <<10, 0>>}

ProbeLonQueries == {0, 5, 15}

\* A field whose every value names its own step and cell.
ProbeField(steps, lat, lon) ==
    [coord |-> [k \in 1 .. steps |-> 2000 + k], lat |-> lat, lon |-> lon,
     pr |-> [k \in 1 .. steps |-> [i \in DOMAIN lat |-> [j \in DOMAIN lon |->
               100 * k + 10 * i + j]]]]

\* A field and a query point are drawn; resolvePoint is then applied to them.
InitResolve ==
    /\ IdleSession
    /\ \E lat \in ProbeAxes, lon \in ProbeLonAxes, steps \in 0 .. 2,
          qlat \in ProbeQueries, qlon \in ProbeLonQueries :
         probe = [op |-> "resolvePoint", field |-> ProbeField(steps, lat, lon),
                  qlat |-> qlat, qlon |-> qlon, result |-> Pending]

Resolve ==
    /\ probe.op = "resolvePoint" /\ probe.result = Pending
    /\ probe' = [probe EXCEPT !.result = sel_nearest(probe.field, probe.qlat, probe.qlon)]
    /\ UNCHANGED session_vars

SpecResolve == InitResolve /\ [][Resolve]_vars

\* The time coordinates of at most MaxSteps steps over three years, in any order, and
\* the values of one cell along them.
ProbeTimes ==
    UNION {[1 .. n -> {2000, 2001, 2002}] : n \in 0 .. MaxSteps}

ProbeValues == {NaN} \cup (0 .. MaxValue)

\* The second cell carries the same values in reverse step order, so the two cells
\* differ step by step.
ProbeDataset(years, values) ==
    [tkind |-> "datetime64", time |-> [k \in DOMAIN years |-> Stamp(years[k], k)],
     lat |-> <<10>>, lon |-> <<0, 10>>,
     pr |-> [k \in DOMAIN years |-> <<<<values[k], values[Len(years) + 1 - k]>>>>]]

\* A one-cell dataset is drawn; aggregateYearly is then applied to it.
InitYearly ==
    /\ IdleSession
    /\ \E years \in ProbeTimes :
         \E values \in [DOMAIN years -> ProbeValues] :
           probe = [op |-> "aggregateYearly", input |-> ProbeDataset(years, values),
                    result |-> Pending]

AggregateYearly ==
    /\ probe.op = "aggregateYearly" /\ probe.result = Pending
    /\ probe' = [probe EXCEPT !.result = groupby_year_max(probe.input)]
    /\ UNCHANGED session_vars

SpecYearly == InitYearly /\ [][AggregateYearly]_vars

\* The value series of at most MaxSeries points, missing values among them.
ProbeSeries ==
    UNION {[1 .. n -> {NaN} \cup (0 .. MaxStat)] : n \in 0 .. MaxSeries}

\* A series is drawn; the statistics the scripts show are then taken of it.
InitStats ==
    /\ IdleSession
    /\ \E values \in ProbeSeries :
         probe = [op |-> "summarizeStatistics",
                  rows |-> [k \in DOMAIN values |-> [t |-> 2000 + k, v |-> values[k]]],
                  result |-> Pending]

SummarizeStatistics ==
    /\ probe.op = "summarizeStatistics" /\ probe.result = Pending
    /\ probe' = [probe EXCEPT !.result = stats_of(probe.rows)]
    /\ UNCHANGED session_vars

SpecStats == InitStats /\ [][SummarizeStatistics]_vars

\* The yearly series over the non-empty sets of years among MaxYears calendar years:
\* years ascending as the grouping leaves them, each value naming its year.
ProbeYearSets == (SUBSET (2000 .. 2000 + MaxYears - 1)) \ {{}}

\* A yearly series is drawn; the period comparison is then made of it.
InitPeriods ==
    /\ IdleSession
    /\ \E Y \in ProbeYearSets :
         probe = [op |-> "comparePeriods",
                  rows |-> [k \in 1 .. Cardinality(Y) |->
                             [t |-> SortedSeq(Y)[k], v |-> SortedSeq(Y)[k] - 2000]],
                  result |-> Pending]

ComparePeriods ==
    /\ probe.op = "comparePeriods" /\ probe.result = Pending
    /\ probe' = [probe EXCEPT !.result = period_comparison(probe.rows)]
    /\ UNCHANGED session_vars

SpecPeriods == InitPeriods /\ [][ComparePeriods]_vars

\* ------------------------------------------------------------------ claims
\* The key under which a script keeps the coordinate, and the coordinate it holds.
CoordsKey == IF version = "app_final" THEN "selected_coords" ELSE "clicked_coords"

Coords == IF CoordsKey \in DOMAIN session_state THEN session_state[CoordsKey] ELSE None

KeepsCoordinate == version \in {"app_enhanced", "app_final"}

\* C1 (as claimed): in app_enhanced.py and app_final.py the stored coordinate is the
\* user's most recent selection: a run started by an in-bounds map click stores the
\* click, a run started by the select button stores the typed pair, and a run that
\* carries no new selection (the user typed into an input, or the page was rerun)
\* leaves the stored coordinate as it was.
C1_LastWriteWins ==
    [][KeepsCoordinate /\ out'.handled =>
         /\ MapClick /\ in_bounds(disk, last_clicked') => Coords' = last_clicked'
         /\ PressSelect => Coords' = inputs'[CHOOSE w \in Forms : TRUE]
         /\ (ChangeInput \/ Refresh) => Coords' = Coords]_vars

\* Whether value r is what a nearest lookup of q on the axis may give: no grid value is
\* closer, and of two equally close grid values r is the larger.
NearestLarger(axis, q, r) ==
    /\ r \in Range(axis)
    /\ \A v \in Range(axis) :
         Abs(q - r) < Abs(q - v) \/ (Abs(q - r) = Abs(q - v) /\ v <= r)

\* The same with a tie going to the first grid value in ascending coordinate order.
NearestFirstAscending(axis, q, r) ==
    /\ r \in Range(axis)
    /\ \A v \in Range(axis) :
         Abs(q - r) < Abs(q - v) \/ (Abs(q - r) = Abs(q - v) /\ r <= v)

Resolved == probe.op = "resolvePoint" /\ probe.result # Pending

\* C2 (amended): on non-empty strictly monotonic axes, for every query inside or outside
\* the axis range, the lookup gives the grid latitude and, independently, the grid
\* longitude at the least absolute difference from the query, with no distance cutoff;
\* an exact tie between two grid values goes to the larger of the two.
C2_NearestPerAxis ==
    Resolved /\ probe.field.lat # << >> /\ probe.field.lon # << >> =>
        /\ probe.result.kind = "ok"
        /\ NearestLarger(probe.field.lat, probe.qlat, probe.result.lat)
        /\ NearestLarger(probe.field.lon, probe.qlon, probe.result.lon)

\* C2 (as claimed): the same, but an exact tie goes to the first grid value in
\* ascending coordinate order.
C2_TieToFirstAscending ==
    Resolved /\ probe.field.lat # << >> /\ probe.field.lon # << >> =>
        /\ probe.result.kind = "ok"
        /\ NearestFirstAscending(probe.field.lat, probe.qlat, probe.result.lat)
        /\ NearestFirstAscending(probe.field.lon, probe.qlon, probe.result.lon)

\* C2 witness: a latitude query half-way between two grid values went to the larger
\* one while the longitude query lay beyond the grid and went to its edge.
C2_TieAndEdge ==
    /\ Resolved /\ probe.result.kind = "ok"
    /\ \E v \in Range(probe.field.lat) :
         v < probe.result.lat /\ Abs(probe.qlat - v) = Abs(probe.qlat - probe.result.lat)
    /\ probe.qlon > SetMax(Range(probe.field.lon))
    /\ probe.result.lon = SetMax(Range(probe.field.lon))

LoadFailed ==
    /\ out.status # "none"
    /\ \/ cache.load.kind = "none"
       \/ version \in {"app_debug", "app_final"} /\ cache.load.value.error # ""

\* C4: in every script a run whose load failed showed the failure and ended there: no
\* map, no selection handling, no time series, no widget on the page.
C4_LoadFailureFatal ==
    LoadFailed =>
        /\ "load_error" \in out.messages
        /\ out.status \in {"stopped", "exception"}
        /\ ~out.map_built /\ ~out.handled /\ out.queries = << >>
        /\ ui = NoPage

\* C4 witness: a run of app.py died on the missing file.
C4_LoadFailedSeen ==
    LoadFailed /\ version = "app" /\ out.exc = "FileNotFoundError"

\* The dataset object the cache holds.
CachedDataset ==
    IF cache.load.kind # "entry" THEN NoDataset
    ELSE IF version \in {"app", "app_enhanced"} THEN cache.load.value
    ELSE cache.load.value.ds

\* C5 (as claimed): the dataset the cache holds is the dataset as the loader read it
\* from the file: nothing after the load (yearly aggregation, spatial summary, point
\* resolution, a rerun) has changed its values or its time, lat or lon coordinate.
C5_DatasetImmutable ==
    cache.load.kind = "entry" /\ CachedDataset # NoDataset => CachedDataset = disk

\* C6 (as claimed): no run that reaches the end of the script computes the yearly
\* aggregate or the spatial summary once an earlier run of the session has computed it.
C6_ComputedOncePerSession ==
    out.status \in {"done", "rerun"} => out.recomputed \cap {"yearly", "summary"} = {}

\* C7 (as claimed): no script run makes two nearest-point series extractions.
C7_OneExtractionPerRun == Len(out.queries) <= 1

\* C8 (as claimed): a lookup on a field with no time step fails with a LookupError
\* (KeyError); no extraction succeeds with an empty series.
C8_ZeroStepsRaise ==
    \A n \in DOMAIN out.queries :
      out.queries[n].rows = << >> =>
        ~out.queries[n].resolved /\ out.queries[n].exc = "KeyError"

\* C9 (as claimed): a series with fewer than two non-missing points makes the block
\* report an error, and neither a numeric standard deviation nor a numeric slope is
\* given for it.
C9_InsufficientData ==
    \A n \in DOMAIN out.queries :
      out.queries[n].resolved /\ Len(Valid(out.queries[n].rows)) < 2 =>
        /\ out.queries[n].exc # ""
        /\ out.queries[n].has_std => out.queries[n].stats.std.kind # "num"
        /\ out.queries[n].has_trend => out.queries[n].slope.kind # "num"

Aggregated == probe.op = "aggregateYearly" /\ probe.result # Pending

\* C10: the yearly aggregate of a field has one entry for each calendar year found in
\* the field's time coordinate and no other, in strictly ascending order.
C10_OneEntryPerYear ==
    Aggregated /\ probe.result.kind = "ok" =>
        LET years == probe.result.value.coord
        IN /\ \A i \in DOMAIN years : \A j \in DOMAIN years : i < j => years[i] < years[j]
           /\ Range(years) = {dt_year(probe.input.time[k]) : k \in DOMAIN probe.input.time}
           /\ DOMAIN probe.result.value.pr = DOMAIN years

\* C10 witness: a time coordinate that repeats a year and is out of order was grouped.
C10_UnsortedRepeatedGrouped ==
    /\ Aggregated /\ probe.result.kind = "ok"
    /\ \E i, j \in DOMAIN probe.input.time :
         i < j /\ dt_year(probe.input.time[i]) > dt_year(probe.input.time[j])
    /\ \E i, j \in DOMAIN probe.input.time :
         i < j /\ dt_year(probe.input.time[i]) = dt_year(probe.input.time[j])

\* The samples of cell (i, j) of the probed dataset whose time stamp falls in year y.
SamplesOfYear(y, i, j) ==
    {probe.input.pr[k][i][j] :
       k \in {k \in DOMAIN probe.input.time : dt_year(probe.input.time[k]) = y}}

\* C11: for every year and cell the yearly aggregate's value is the greatest of the
\* cell's non-missing samples of that year (so the sample itself when the year has
\* one), and it is missing, not zero, when every sample of the year is missing.
C11_CellMaxOfYear ==
    Aggregated /\ probe.result.kind = "ok" =>
        LET agg == probe.result.value
        IN \A y \in DOMAIN agg.coord : \A i \in DOMAIN agg.lat : \A j \in DOMAIN agg.lon :
             LET valid == SamplesOfYear(agg.coord[y], i, j) \ {NaN}
                 got == agg.pr[y][i][j]
             IN /\ valid = {} => got = NaN
                /\ valid # {} => got \in valid /\ \A v \in valid : v <= got

\* C11 witness: one year of the aggregated dataset had a single, non-missing sample,
\* another had only missing samples in some cell and got a missing value there.
C11_SingleAndAllMissing ==
    /\ Aggregated /\ probe.result.kind = "ok"
    /\ \E y \in DOMAIN probe.result.value.coord :
         /\ Cardinality({k \in DOMAIN probe.input.time :
                          dt_year(probe.input.time[k]) = probe.result.value.coord[y]}) = 1
         /\ probe.result.value.pr[y][1][1] # NaN
    /\ \E y \in DOMAIN probe.result.value.coord :
         /\ SamplesOfYear(probe.result.value.coord[y], 1, 1) = {NaN}
         /\ probe.result.value.pr[y][1][1] = NaN

\* The field a script's queries are answered from, as the script derives it from the
\* file: the raw field in app.py, the yearly aggregate in the other three.
SourceField ==
    CASE version = "app" -> pr_of(disk)
      [] version = "app_debug" -> pr_of(process_yearly_data(disk).yearly_ds)
      [] version = "app_enhanced" -> pr_of(prepare_yearly_data(with_datetime(disk).value).value)
      [] version = "app_final" -> pr_of(processed(disk, groupby_year_max(disk)).yearly_ds)

\* C12: in every run of every session, whatever queries, reruns, clears or failures
\* came before, the answer to a query is the lookup of its point in the field of the
\* file: the same resolved (lat, lon) and the same value sequence on every call.
C12_SameAnswerEveryCall ==
    \A n \in DOMAIN out.queries :
      \E r \in {sel_nearest(SourceField, out.queries[n].q[1], out.queries[n].q[2])} :
        /\ out.queries[n].resolved = ~IsError(r)
        /\ out.queries[n].resolved =>
             /\ out.queries[n].lat = r.lat /\ out.queries[n].lon = r.lon
             /\ out.queries[n].rows = r.rows

\* C12 witness: after an earlier map click and an earlier failed query, a run started
\* by the select button answered a typed point other than the clicked one.
C12_AnsweredAfterHistory ==
    /\ KeepsCoordinate /\ failed_before
    /\ last_clicked # None /\ out.button \in {"select", "generate_ts"}
    /\ out.queries # << >>
    /\ out.queries[1].resolved /\ out.queries[1].rows # << >>
    /\ out.queries[1].q # last_clicked

\* Whether query answer a is the series of cell (i, j) of field F: one row per step of
\* F, in F's order, each with the step's time or year and the cell's value.
SeriesOfCell(a, F, i, j) ==
    /\ F.lat[i] = a.lat /\ F.lon[j] = a.lon
    /\ DOMAIN a.rows = DOMAIN F.coord
    /\ \A k \in DOMAIN F.coord : a.rows[k] = [t |-> F.coord[k], v |-> F.pr[k][i][j]]

\* Whether the CSV text of answer a is the header and then one line per step of F, in
\* F's order, each with the step's year and the value of cell (i, j).
CsvOfCell(a, F, i, j) ==
    /\ Len(a.csv) = Len(F.coord) + 1
    /\ \A k \in DOMAIN F.coord :
         /\ a.csv[k + 1][1] = ToString(F.coord[k])
         /\ a.csv[k + 1][4] = ToString(F.pr[k][i][j])

\* C13: the series a query returns has exactly one row per time step (or year) of the
\* source field, in the field's order, each row with the value at the resolved cell;
\* and so has the CSV text whenever one is offered for download.
C13_OneRowPerStep ==
    \A n \in DOMAIN out.queries :
      out.queries[n].resolved =>
        \E i \in DOMAIN SourceField.lat : \E j \in DOMAIN SourceField.lon :
          /\ SeriesOfCell(out.queries[n], SourceField, i, j)
          /\ out.queries[n].csv # << >> => CsvOfCell(out.queries[n], SourceField, i, j)

\* C13 witness: app_final.py offered the CSV of a series of three years.
C13_CsvOffered ==
    /\ version = "app_final" /\ out.queries # << >>
    /\ Len(out.queries[1].rows) = 3 /\ Len(out.queries[1].csv) = 4

Summarized == probe.op = "summarizeStatistics" /\ probe.result # Pending

\* The sum of the values of a series at a set of its indices.
RECURSIVE IndexSum(_, _)
IndexSum(rows, K) ==
    IF K = {} THEN 0
    ELSE LET k == CHOOSE k \in K : TRUE IN rows[k].v + IndexSum(rows, K \ {k})

\* C14: the maximum, minimum and mean the scripts report for a series are those of its
\* non-missing values alone: the maximum and minimum are values of the series bounding
\* every non-missing value, the mean is their sum over their count (a missing value
\* adds neither to the sum nor to the count), all three are missing when no value is
\* present, and the series 1, 2, 3, 4 gives 4, 1 and 5/2.
C14_StatsOverValidValues ==
    Summarized =>
        LET K == {k \in DOMAIN probe.rows : probe.rows[k].v # NaN}
            st == probe.result
        IN /\ K = {} => st.max = NaN /\ st.min = NaN /\ st.mean.kind = "nan"
           /\ K # {} =>
                /\ \E k \in K : st.max = probe.rows[k].v
                /\ \E k \in K : st.min = probe.rows[k].v
                /\ \A k \in K : st.min <= probe.rows[k].v /\ probe.rows[k].v <= st.max
                /\ st.mean.kind = "num"
                /\ st.mean.num * Cardinality(K) = st.mean.den * IndexSum(probe.rows, K)
           /\ Values(probe.rows) = <<1, 2, 3, 4>> =>
                st.max = 4 /\ st.min = 1 /\ 2 * st.mean.num = 5 * st.mean.den

\* C14 witness: the statistics were taken of a series holding a missing value between
\* two different positive values.
C14_MissingAmongValues ==
    /\ Summarized
    /\ Len(probe.rows) = 3 /\ probe.rows[2].v = NaN
    /\ probe.rows[1].v > 0 /\ probe.rows[3].v > probe.rows[1].v
    /\ probe.result.max = probe.rows[3].v /\ probe.result.min = probe.rows[1].v
    /\ probe.result.mean.den = 2

\* C15: in app_enhanced.py and app_final.py the stored coordinate is always None or a
\* point within the dataset bounds, and a run started by a map click outside the
\* bounds shows the warning and leaves the stored coordinate as it was.
C15_CoordinateInBounds ==
    /\ [](KeepsCoordinate /\ Coords # None => in_bounds(disk, Coords))
    /\ [][KeepsCoordinate /\ MapClick /\ out'.handled /\ ~in_bounds(disk, last_clicked') =>
            "outside" \in out'.messages /\ Coords' = Coords]_vars

\* C15 witness: while a coordinate was held, a run saw a click outside the bounds and
\* warned about it.
C15_OutsideClickWarned ==
    /\ KeepsCoordinate /\ Coords # None
    /\ out.handled /\ out.click # None /\ ~in_bounds(disk, out.click)
    /\ "outside" \in out.messages

\* C16 (as claimed): in app_enhanced.py and app_final.py the rerun that follows a press
\* of Clear Selection ends with no coordinate stored and renders no time series,
\* whatever selections were made before.
C16_ClearedAfterRerun ==
    [][KeepsCoordinate /\ rerun_pending => Coords' = None /\ out'.queries = << >>]_vars

\* The run the state describes saw an in-bounds map click and a press of the button
\* that stores the number inputs.
ClickAndPress ==
    /\ KeepsCoordinate /\ out.handled
    /\ out.button \in {"select", "generate_ts"}
    /\ out.click # None /\ in_bounds(disk, out.click)

\* C17: in app_enhanced.py and app_final.py a run that sees both an in-bounds map click
\* and a press of the select button ends with the typed coordinate stored, and the
\* time series of that run is the one of the typed coordinate.
C17_ManualWinsInRun ==
    ClickAndPress =>
        /\ Coords = inputs[CHOOSE w \in Forms : TRUE]
        /\ Len(out.queries) = 1
        /\ out.queries[1].q = inputs[CHOOSE w \in Forms : TRUE]

\* C17 witness: such a run, with the typed coordinate other than the clicked one.
C17_ClickOverridden ==
    /\ ClickAndPress /\ out.click # Coords
    /\ out.queries # << >> /\ out.queries[1].q = Coords

Compared == probe.op = "comparePeriods" /\ probe.result # Pending

\* C18: in the period comparison of app_final.py the middle year is the floor of half
\* the sum of the least and the greatest year; every row of the yearly series is in
\* exactly one of the early period (year <= middle) and the late period (year >
\* middle); and both periods have a row whenever the series has two distinct years.
C18_PeriodsPartition ==
    Compared =>
        LET years == {probe.rows[k].t : k \in DOMAIN probe.rows}
            lo == CHOOSE y \in years : \A z \in years : y <= z
            hi == CHOOSE y \in years : \A z \in years : z <= y
            res == probe.result
        IN /\ 2 * res.mid_year <= lo + hi /\ lo + hi < 2 * res.mid_year + 2
           /\ \A k \in DOMAIN probe.rows :
                (probe.rows[k] \in Range(res.early_period))
                  # (probe.rows[k] \in Range(res.late_period))
           /\ Len(res.early_period) + Len(res.late_period) = Len(probe.rows)
           /\ \A k \in DOMAIN res.early_period : res.early_period[k].t <= res.mid_year
           /\ \A k \in DOMAIN res.late_period : res.late_period[k].t > res.mid_year
           /\ Cardinality(years) >= 2 =>
                res.early_period # << >> /\ res.late_period # << >>

\* C18 witness: a series of two consecutive years was split into one row each.
C18_ConsecutiveYearsSplit ==
    /\ Compared /\ Len(probe.rows) = 2 /\ probe.rows[2].t = probe.rows[1].t + 1
    /\ Len(probe.result.early_period) = 1 /\ Len(probe.result.late_period) = 1

====
